---- MODULE Spec2Model ----
(***************************************************************************)
(* The audiogames.net forum downloader (src/downloader.py) as a state      *)
(* machine.  One process crawls root -> room -> listing page -> thread ->   *)
(* post page -> post and writes User, Room, Thread and Post rows through    *)
(* one SQLAlchemy session.  The database file outlives the process, so a    *)
(* later run starts from the rows the earlier runs committed.               *)
(***************************************************************************)
EXTENDS Integers, Sequences, FiniteSets

\* Number of times the entry point is run against the same database file.
MaxRuns == 2

None == 0

(***************************************************************************)
(* The source: the documents http.get returns.                             *)
(***************************************************************************)

\* An h3 of the root listing that links to a room, with its last-post link.
RoomEntry(name, href, latest) ==
    [name |-> name, link |-> TRUE, href |-> href, hasLast |-> TRUE, latest |-> latest]

\* An h3 of the root listing without a link (a category heading).
Heading(name) ==
    [name |-> name, link |-> FALSE, href |-> None, hasLast |-> FALSE, latest |-> None]

\* An h3 of the root listing whose li.info-lastpost has no link.
BrokenRoomEntry(name, href) ==
    [name |-> name, link |-> TRUE, href |-> href, hasLast |-> FALSE, latest |-> None]

\* An h3 of a room page: a thread with its last-post link.
ThreadEntry(name, href, latest) ==
    [name |-> name, moved |-> FALSE, href |-> href, hasLast |-> TRUE, latest |-> latest]

\* An h3 of a room page carrying em.moved: it has no last-post summary.
MovedEntry(name, href) ==
    [name |-> name, moved |-> TRUE, href |-> href, hasLast |-> FALSE, latest |-> None]

\* An h3 of a room page that is not moved and lacks the last-post link.
BrokenEntry(name, href) ==
    [name |-> name, moved |-> FALSE, href |-> href, hasLast |-> FALSE, latest |-> None]

\* A div.post: its id (from the permalink), byline, firstpost class, and
\* whether the text of span.post-link is a timestamp fromisoformat accepts.
Fragment(id, author, first) ==
    [id |-> id, author |-> author, first |-> first, dateOk |-> TRUE]

BadDateFragment(id, author, first) ==
    [id |-> id, author |-> author, first |-> first, dateOk |-> FALSE]

\* Room "Chat" with two listing pages; the newest thread is on page 1;
\* thread 2 has two post pages, its latest post on the last one.
ForumChat ==
    [root    |-> << RoomEntry("Chat", 1, 77) >>,
     rooms   |-> << << << ThreadEntry("Hello", 1, 77) >>,
                       << ThreadEntry("Old", 2, 40) >> >> >>,
     threads |-> << << << Fragment(75, "alice", TRUE), Fragment(76, "bob", FALSE),
                          Fragment(77, "alice", FALSE) >> >>,
                    << << Fragment(39, "bob", TRUE) >>,
                       << Fragment(40, "alice", FALSE) >> >> >>]

\* A room with exactly one listing page, then a room with two.
ForumSolo ==
    [root    |-> << RoomEntry("Solo", 1, 12), RoomEntry("Chat", 2, 21) >>,
     rooms   |-> << << << ThreadEntry("Intro", 1, 12) >> >>,
                    << << ThreadEntry("News", 2, 21) >>,
                       << ThreadEntry("Tips", 3, 20) >> >> >>,
     threads |-> << << << Fragment(11, "carol", TRUE), Fragment(12, "dave", FALSE) >> >>,
                    << << Fragment(21, "alice", TRUE) >> >>,
                    << << Fragment(20, "bob", TRUE) >> >> >>]

\* Thread 2 was moved from room "A" to room "B": "A" still lists it, marked moved.
ForumMoved ==
    [root    |-> << RoomEntry("A", 1, 31), RoomEntry("B", 2, 33) >>,
     rooms   |-> << << << ThreadEntry("Stay", 1, 31) >>,
                       << MovedEntry("Gone", 2) >> >>,
                    << << ThreadEntry("Gone", 2, 33) >>,
                       << ThreadEntry("Other", 3, 30) >> >> >>,
     threads |-> << << << Fragment(31, "alice", TRUE) >> >>,
                    << << Fragment(32, "bob", TRUE), Fragment(33, "alice", FALSE) >> >>,
                    << << Fragment(30, "carol", TRUE) >> >> >>]

\* Two threads of one room with the same title, started by different users.
ForumSameTitle ==
    [root    |-> << RoomEntry("Help", 1, 52) >>,
     rooms   |-> << << << ThreadEntry("help", 1, 52) >>,
                       << ThreadEntry("help", 2, 50) >> >> >>,
     threads |-> << << << Fragment(51, "alice", TRUE), Fragment(52, "bob", FALSE) >> >>,
                    << << Fragment(50, "bob", TRUE) >> >> >>]

\* A post, not the first of its thread, whose timestamp does not parse.
ForumBadDate ==
    [root    |-> << Heading("General"), RoomEntry("Dates", 1, 63) >>,
     rooms   |-> << << << ThreadEntry("When", 1, 63) >>,
                       << ThreadEntry("Then", 2, 60) >> >> >>,
     threads |-> << << << Fragment(61, "alice", TRUE), BadDateFragment(62, "bob", FALSE),
                          Fragment(63, "alice", FALSE) >> >>,
                    << << Fragment(60, "carol", TRUE) >> >> >>]

\* A first post whose timestamp does not parse, in a thread of two post
\* pages: the last page is visited before the page with the first post.
ForumBadFirst ==
    [root    |-> << RoomEntry("Dates", 1, 66) >>,
     rooms   |-> << << << ThreadEntry("Now", 1, 66) >>,
                       << ThreadEntry("Ago", 2, 64) >> >> >>,
     threads |-> << << << BadDateFragment(65, "bob", TRUE) >>,
                       << Fragment(66, "alice", FALSE) >> >>,
                    << << Fragment(64, "alice", TRUE) >> >> >>]

\* A thread entry without its last-post link, after a well-formed one.
ForumBrokenEntry ==
    [root    |-> << RoomEntry("Odd", 1, 83) >>,
     rooms   |-> << << << BrokenEntry("Lost", 2), ThreadEntry("Late", 3, 83) >>,
                       << ThreadEntry("Fine", 1, 81) >> >> >>,
     threads |-> << << << Fragment(80, "alice", TRUE), Fragment(81, "bob", FALSE) >> >>,
                    << << Fragment(82, "bob", TRUE) >> >>,
                    << << Fragment(83, "bob", TRUE) >> >> >>]

\* A room entry of the root listing without its last-post link, after a
\* well-formed one.
ForumBrokenRoom ==
    [root    |-> << RoomEntry("Ok", 1, 91), BrokenRoomEntry("Bare", 2),
                    RoomEntry("After", 3, 95) >>,
     rooms   |-> << << << ThreadEntry("One", 1, 91) >>,
                       << ThreadEntry("Two", 2, 90) >> >>,
                    << << ThreadEntry("Three", 3, 93) >> >>,
                    << << ThreadEntry("Four", 4, 95) >>,
                       << ThreadEntry("Five", 5, 94) >> >> >>,
     threads |-> << << << Fragment(91, "alice", TRUE) >> >>,
                    << << Fragment(90, "bob", TRUE) >> >>,
                    << << Fragment(93, "bob", TRUE) >> >>,
                    << << Fragment(95, "alice", TRUE) >> >>,
                    << << Fragment(94, "bob", TRUE) >> >> >>]

\* A room with three listing pages and a thread with three post pages.
ForumLong ==
    [root    |-> << RoomEntry("Long", 1, 109) >>,
     rooms   |-> << << << ThreadEntry("Big", 1, 109) >>,
                       << ThreadEntry("Mid", 2, 103) >>,
                       << ThreadEntry("Low", 3, 101), ThreadEntry("Base", 4, 100) >> >> >>,
     threads |-> << << << Fragment(105, "alice", TRUE) >>,
                       << Fragment(107, "bob", FALSE) >>,
                       << Fragment(109, "alice", FALSE) >> >>,
                    << << Fragment(102, "bob", TRUE), Fragment(103, "alice", FALSE) >> >>,
                    << << Fragment(101, "alice", TRUE) >> >>,
                    << << Fragment(100, "bob", TRUE) >> >> >>]

Forums ==
    << ForumChat, ForumSolo, ForumMoved, ForumSameTitle,
       ForumBadDate, ForumBadFirst, ForumBrokenEntry, ForumBrokenRoom, ForumLong >>

VARIABLES
    f,          \* which forum the runs crawl (the source never changes)
    run,        \* number of the current run of the entry point
    hist,       \* how the earlier runs ended, oldest first
    pc,         \* position of the process
    ended,      \* how main() of this run ended: "" while it runs
    ri,         \* main: index of the h3 of the root listing
    room,       \* parse_room / parse_pages: id of the Room in use
    page,       \* parse_pages: the listing page number
    ei,         \* parse_pages: index of the h3 of the listing page
    thread,     \* parse_thread: id of the Thread in use
    tpage,      \* parse_thread: the post page number
    paged,      \* parse_thread: whether the thread has a page link
    mi,         \* parse_thread_page: index of the div.post
    user,       \* parse_message: id of the resolved User
    rooms,      \* committed rows of table rooms
    users,      \* committed rows of table users
    threads,    \* committed rows of table threads
    posts,      \* committed rows of table posts (the crawl's own check of
                \* line 290, not the primary key, is what keeps ids apart here)
    pending,    \* Thread rows the session holds and has not committed
    log,        \* this run's fetches and pauses, in order
    prevRepo,   \* the committed rows when the previous run ended
    expunged,   \* number of pending rows the last rollback threw away
    summary,    \* the summaries this run has printed: the three counts each
    callRepo,   \* the committed rows when the current parse_message call began
    today,      \* parse_datetime: the date of datetime.utcnow()
    text,       \* parse_datetime: its argument
    parsed,     \* parse_datetime: what it returned
    content,    \* parse_message: the children of div.entry-content
    body        \* parse_message: the text of the Post built from them

ctl   == << ri, room, page, ei, thread, tpage, paged, mi, user >>
db    == << rooms, users, threads, posts >>
norm  == << today, text, parsed, content, body >>
vars  == << f, run, hist, pc, ended, ri, room, page, ei, thread, tpage, paged, mi,
            user, rooms, users, threads, posts, pending, log, prevRepo, expunged,
            summary, callRepo, today, text, parsed, content, body >>

Forum == Forums[f]

Repo == [rooms |-> rooms, users |-> users, threads |-> threads, posts |-> posts]

EmptyRepo == [rooms |-> <<>>, users |-> <<>>, threads |-> <<>>, posts |-> <<>>]


(***************************************************************************)
(* Helpers of the crawl.                                                   *)
(***************************************************************************)

\* The links of p.paging on the first page of a listing of n pages: one per
\* other page, then "Next" (written 0).  A listing of one page has none.
PagingLinks(n) ==
    IF n <= 1 THEN << >> ELSE [i \in 1..n |-> IF i < n THEN i + 1 ELSE 0]

get_page_link_first(links) ==
    IF Len(links) < 2 THEN None ELSE links[1]

\* get_page_link: links[-2], or None when that raises IndexError.
get_page_link(links) ==
    IF Len(links) < 2 THEN None ELSE links[Len(links) - 1]

\* parse_page_link: the page number is the text of the link.
parse_page_link(a) == a

HasLatestId_always(h3) == TRUE

\* get_latest_id: the assertions hold when the last-post link is there.
HasLatestId(h3) == h3.hasLast

\* A variant that reads the thread's own link instead of the last-post link.
get_latest_id_ownLink(h3) == h3.href

get_latest_id(h3) == h3.latest

\* Post.query(id=...).first() is not None / Post.count(id=...) > 0
PostExists(id) == \E i \in DOMAIN posts : posts[i].id = id

\* The Thread rows a query sees: it flushes the pending rows first.
\* Thread(name=name, room=room) joins the session when it is built, through
\* the save-update cascade of the backref room.threads (the SQLAlchemy 1.x
\* that declarative_base(bind=...) of line 47 needs cascades backrefs).
SessionThreads == threads \o pending

\* query(...).first(): the id of the first of the rows at indexes hit, or None.
First(rows, hit) ==
    IF hit = {} THEN None
    ELSE rows[CHOOSE i \in hit : \A j \in hit : i <= j].id

RoomByName(name) ==
    First(rooms, {i \in DOMAIN rooms : rooms[i].name = name})

\* A variant whose lookup never matches.
UserByName_noMatch(name) == None

UserByName(name) ==
    First(users, {i \in DOMAIN users : users[i].name = name})

ThreadByNameAndRoom(name, rm) ==
    First(SessionThreads,
          {i \in DOMAIN SessionThreads :
             SessionThreads[i].name = name /\ SessionThreads[i].room_id = rm})

\* A variant that writes only the row save() was called on.
save_onlySelf(rows, new) == rows

\* _BaseClass.save: session.commit() writes every pending row.
save(rows, new) == rows \o new

\* A variant that leaves the session as it is.
rollback_noop(new) == new

\* session.rollback(): the rows the session keeps pending afterwards.
rollback(new) == << >>

\* One entry of the log.
Fetched(kind, href, n) == [kind |-> kind, href |-> href, page |-> n]

RootDoc == Forum.root

RoomPages == Forum.rooms[RootDoc[ri].href]

RoomDoc == RoomPages[page]

Entry == RoomDoc[ei]

ThreadPages == Forum.threads[Entry.href]

ThreadDoc == ThreadPages[tpage]

Div == ThreadDoc[mi]

Running == pc \notin {"report", "done"}

(***************************************************************************)
(* The process.                                                            *)
(***************************************************************************)

Init ==
    /\ f \in DOMAIN Forums
    /\ run = 1
    /\ hist = << >>
    /\ pc = "main"
    /\ ended = ""
    /\ ri = 0 /\ room = None /\ page = 0 /\ ei = 0
    /\ thread = None /\ tpage = 0 /\ paged = FALSE /\ mi = 0 /\ user = None
    /\ rooms = << >> /\ users = << >> /\ threads = << >> /\ posts = << >>
    /\ pending = << >>
    /\ log = << >>
    /\ prevRepo = EmptyRepo
    /\ expunged = 0
    /\ summary = << >>
    /\ callRepo = EmptyRepo
    /\ today = None /\ text = << >> /\ parsed = None
    /\ content = << >> /\ body = None

Raise_noFinally ==
    /\ pc' = "done"
    /\ ended' = "error"

\* An exception other than KeyboardInterrupt leaves main(): only finally runs.
Raise ==
    /\ pc' = "report"
    /\ ended' = "error"

\* main, lines 124-127: fetch the root listing.
Main_get ==
    /\ pc = "main"
    /\ log' = Append(log, Fetched("root", None, 0))
    /\ ri' = 1
    /\ pc' = "main_h3"
    /\ UNCHANGED << f, run, hist, ended, room, page, ei, thread, tpage, paged, mi,
                    user, db, pending, prevRepo, expunged,
                    summary, callRepo, norm >>

\* main, lines 128-136: one h3 of the root listing, or the end of the loop.
Main_h3 ==
    /\ pc = "main_h3"
    /\ IF ri > Len(RootDoc)
         THEN /\ pc' = "report" /\ ended' = "ok" /\ ri' = ri
         ELSE IF ~RootDoc[ri].link
         THEN /\ pc' = pc /\ ended' = ended /\ ri' = ri + 1
         ELSE IF ~HasLatestId(RootDoc[ri])
         THEN /\ Raise /\ ri' = ri
         ELSE IF PostExists(get_latest_id(RootDoc[ri]))
         THEN /\ pc' = pc /\ ended' = ended /\ ri' = ri + 1
         ELSE /\ pc' = "parse_room" /\ ended' = ended /\ ri' = ri
    /\ UNCHANGED << f, run, hist, room, page, ei, thread, tpage, paged, mi, user,
                    db, pending, log, prevRepo, expunged,
                    summary, callRepo, norm >>

\* parse_room, lines 167-177: use the Room of that name or create and save it.
ParseRoom_resolve ==
    /\ pc = "parse_room"
    /\ LET name  == RootDoc[ri].name
           found == RoomByName(name)
       IN  IF found = None
             THEN /\ rooms' = Append(rooms, [id |-> Len(rooms) + 1, name |-> name])
                  /\ threads' = save(threads, pending)
                  /\ pending' = << >>
                  /\ room' = Len(rooms) + 1
             ELSE /\ room' = found
                  /\ UNCHANGED << rooms, threads, pending >>
    /\ pc' = "room_get"
    /\ UNCHANGED << f, run, hist, ended, ri, page, ei, thread, tpage, paged, mi, user,
                    users, posts, log, prevRepo, expunged,
                    summary, callRepo, norm >>

\* parse_room, lines 178-185: fetch the room, find the highest page number.
ParseRoom_get ==
    /\ pc = "room_get"
    /\ log' = Append(log, Fetched("room", RootDoc[ri].href, 0))
    /\ LET page_link == get_page_link(PagingLinks(Len(RoomPages)))
       IN  IF page_link = None
             THEN /\ pc' = "main_h3" /\ ri' = ri + 1 /\ page' = 0 /\ room' = None
             ELSE /\ pc' = "parse_pages" /\ ri' = ri /\ room' = room
                  /\ page' = parse_page_link(page_link)
    /\ UNCHANGED << f, run, hist, ended, ei, thread, tpage, paged, mi, user,
                    db, pending, prevRepo, expunged,
                    summary, callRepo, norm >>

\* parse_pages, lines 195-199: fetch the next listing page, or leave the loop.
ParsePages_get ==
    /\ pc = "parse_pages"
    /\ IF page > 0
         THEN /\ log' = Append(log, Fetched("roompage", RootDoc[ri].href, page))
              /\ ei' = 1
              /\ pc' = "pages_h3"
              /\ UNCHANGED << ri, room >>
         ELSE /\ pc' = "main_h3" /\ ri' = ri + 1 /\ ei' = 0 /\ room' = None
              /\ log' = log
    /\ UNCHANGED << f, run, hist, ended, page, thread, tpage, paged, mi, user,
                    db, pending, prevRepo, expunged,
                    summary, callRepo, norm >>

\* A variant of ParsePages_h3 without the "continue" of line 208.
ParsePages_h3_noContinue ==
    /\ pc = "pages_h3"
    /\ ei <= Len(RoomDoc)
    /\ IF Entry.moved \/ HasLatestId(Entry)
         THEN /\ pc' = "parse_thread" /\ ended' = ended /\ ei' = ei
         ELSE /\ Raise /\ ei' = ei
    /\ UNCHANGED << f, run, hist, ri, room, page, thread, tpage, paged, mi, user,
                    db, pending, log, prevRepo, expunged,
                    summary, callRepo, norm >>

\* parse_pages, lines 200-209: one h3 of the listing page.
ParsePages_h3 ==
    /\ pc = "pages_h3"
    /\ ei <= Len(RoomDoc)
    /\ IF Entry.moved
         THEN /\ pc' = "parse_thread" /\ ended' = ended /\ ei' = ei
         ELSE IF ~HasLatestId(Entry)
         THEN /\ Raise /\ ei' = ei
         ELSE IF PostExists(get_latest_id(Entry))
         THEN /\ pc' = pc /\ ended' = ended /\ ei' = ei + 1
         ELSE /\ pc' = "parse_thread" /\ ended' = ended /\ ei' = ei
    /\ UNCHANGED << f, run, hist, ri, room, page, thread, tpage, paged, mi, user,
                    db, pending, log, prevRepo, expunged,
                    summary, callRepo, norm >>

\* parse_pages, lines 210-213: after the last h3, save the room and pause.
ParsePages_save ==
    /\ pc = "pages_h3"
    /\ ei > Len(RoomDoc)
    /\ threads' = save(threads, pending)
    /\ pending' = << >>
    /\ page' = page - 1
    /\ log' = Append(log, Fetched("sleep", None, 0))
    /\ ei' = 0
    /\ pc' = "parse_pages"
    /\ UNCHANGED << f, run, hist, ended, ri, room, thread, tpage, paged, mi, user,
                    rooms, users, posts, prevRepo, expunged,
                    summary, callRepo, norm >>

\* parse_thread, lines 223-233: use the Thread of that name and room, or make
\* one; the new Thread joins the session through room.threads.
ParseThread_resolve ==
    /\ pc = "parse_thread"
    /\ LET name  == Entry.name
           found == ThreadByNameAndRoom(name, room)
           id    == Len(SessionThreads) + 1
       IN  IF found = None
             THEN /\ pending' = Append(pending, [id |-> id, name |-> name,
                                                 room_id |-> room, user_id |-> None])
                  /\ thread' = id
             ELSE /\ thread' = found
                  /\ pending' = pending
    /\ pc' = "thread_get"
    /\ UNCHANGED << f, run, hist, ended, ri, room, page, ei, tpage, paged, mi, user,
                    db, log, prevRepo, expunged,
                    summary, callRepo, norm >>

\* A variant of ParseThread_get that takes every thread as paginated.
ParseThread_get_alwaysPaged ==
    /\ pc = "thread_get"
    /\ log' = Append(log, Fetched("thread", Entry.href, 0))
    /\ paged' = TRUE /\ tpage' = Len(ThreadPages)
    /\ mi' = 0 /\ pc' = "thread_pages"
    /\ UNCHANGED << f, run, hist, ended, ri, room, page, ei, thread, user,
                    db, pending, prevRepo, expunged,
                    summary, callRepo, norm >>

\* parse_thread, lines 234-243: fetch the thread, find the highest page number.
ParseThread_get ==
    /\ pc = "thread_get"
    /\ log' = Append(log, Fetched("thread", Entry.href, 0))
    /\ LET page_link == get_page_link(PagingLinks(Len(ThreadPages)))
       IN  IF page_link = None
             THEN /\ paged' = FALSE /\ tpage' = 1 /\ mi' = 1 /\ pc' = "thread_div"
             ELSE /\ paged' = TRUE /\ tpage' = parse_page_link(page_link)
                  /\ mi' = 0 /\ pc' = "thread_pages"
    /\ UNCHANGED << f, run, hist, ended, ri, room, page, ei, thread, user,
                    db, pending, prevRepo, expunged,
                    summary, callRepo, norm >>

\* parse_thread, lines 244-248: fetch the next post page, or leave the loop.
ParseThread_page ==
    /\ pc = "thread_pages"
    /\ IF tpage > 0
         THEN /\ log' = Append(log, Fetched("threadpage", Entry.href, tpage))
              /\ mi' = 1
              /\ pc' = "thread_div"
              /\ UNCHANGED << ei, thread, paged >>
         ELSE /\ pc' = "pages_h3" /\ ei' = ei + 1 /\ mi' = 0
              /\ thread' = None /\ paged' = FALSE
              /\ log' = log
    /\ UNCHANGED << f, run, hist, ended, ri, room, page, tpage, user,
                    db, pending, prevRepo, expunged,
                    summary, callRepo, norm >>

\* A variant of ParseThreadPage_div where a stored post ends the page.
ParseThreadPage_div_skipStops ==
    /\ pc = "thread_div"
    /\ callRepo' = IF mi > Len(ThreadDoc) THEN callRepo ELSE Repo
    /\ IF mi > Len(ThreadDoc)
         THEN IF paged
                THEN /\ pc' = "thread_pages" /\ tpage' = tpage - 1 /\ mi' = 0
                     /\ UNCHANGED << ei, thread >>
                ELSE /\ pc' = "pages_h3" /\ ei' = ei + 1 /\ mi' = 0 /\ tpage' = 0
                     /\ thread' = None
         ELSE IF PostExists(Div.id)
                THEN /\ pc' = pc /\ mi' = Len(ThreadDoc) + 1
                     /\ UNCHANGED << ei, thread, tpage >>
                ELSE /\ pc' = "message_user" /\ UNCHANGED << ei, thread, tpage, mi >>
    /\ UNCHANGED << f, run, hist, ended, ri, room, page, paged, user,
                    db, pending, log, prevRepo, expunged,
                    summary, norm >>

\* A variant of ParseThreadPage_div without the return of lines 290-291.
ParseThreadPage_div_noReturn ==
    /\ pc = "thread_div"
    /\ callRepo' = IF mi > Len(ThreadDoc) THEN callRepo ELSE Repo
    /\ IF mi > Len(ThreadDoc)
         THEN IF paged
                THEN /\ pc' = "thread_pages" /\ tpage' = tpage - 1 /\ mi' = 0
                     /\ UNCHANGED << ei, thread >>
                ELSE /\ pc' = "pages_h3" /\ ei' = ei + 1 /\ mi' = 0 /\ tpage' = 0
                     /\ thread' = None
         ELSE /\ pc' = "message_user" /\ UNCHANGED << ei, thread, tpage, mi >>
    /\ UNCHANGED << f, run, hist, ended, ri, room, page, paged, user,
                    db, pending, log, prevRepo, expunged,
                    summary, norm >>

\* parse_thread_page, lines 256-260, and parse_message, lines 287-291: the
\* next div.post of the page; a post already stored is skipped.
ParseThreadPage_div ==
    /\ pc = "thread_div"
    /\ callRepo' = IF mi > Len(ThreadDoc) THEN callRepo ELSE Repo
    /\ IF mi > Len(ThreadDoc)
         THEN IF paged
                THEN /\ pc' = "thread_pages" /\ tpage' = tpage - 1 /\ mi' = 0
                     /\ UNCHANGED << ei, thread >>
                ELSE /\ pc' = "pages_h3" /\ ei' = ei + 1 /\ mi' = 0 /\ tpage' = 0
                     /\ thread' = None
         ELSE IF PostExists(Div.id)
                THEN /\ pc' = pc /\ mi' = mi + 1 /\ UNCHANGED << ei, thread, tpage >>
                ELSE /\ pc' = "message_user" /\ UNCHANGED << ei, thread, tpage, mi >>
    /\ UNCHANGED << f, run, hist, ended, ri, room, page, paged, user,
                    db, pending, log, prevRepo, expunged,
                    summary, norm >>

\* parse_message, lines 292-309: use the User of that name or create and save it.
ParseMessage_user ==
    /\ pc = "message_user"
    /\ LET found == UserByName(Div.author)
       IN  IF found = None
             THEN /\ users' = Append(users, [id |-> Len(users) + 1, name |-> Div.author])
                  /\ threads' = save(threads, pending)
                  /\ pending' = << >>
                  /\ user' = Len(users) + 1
             ELSE /\ user' = found
                  /\ UNCHANGED << users, threads, pending >>
    /\ pc' = "message_first"
    /\ UNCHANGED << f, run, hist, ended, ri, room, page, ei, thread, tpage, paged, mi,
                    rooms, posts, log, prevRepo, expunged,
                    summary, callRepo, norm >>

\* parse_message, lines 310-313: the first post names the thread's starter.
ParseMessage_first ==
    /\ pc = "message_first"
    /\ IF Div.first
         THEN /\ threads' = save([i \in DOMAIN threads |->
                                    IF threads[i].id = thread
                                      THEN [threads[i] EXCEPT !.user_id = user]
                                      ELSE threads[i]],
                                 [i \in DOMAIN pending |->
                                    IF pending[i].id = thread
                                      THEN [pending[i] EXCEPT !.user_id = user]
                                      ELSE pending[i]])
              /\ pending' = << >>
         ELSE UNCHANGED << threads, pending >>
    /\ pc' = "message_post"
    /\ UNCHANGED << f, run, hist, ended, ri, room, page, ei, thread, tpage, paged, mi,
                    user, rooms, users, posts, log, prevRepo, expunged,
                    summary, callRepo, norm >>

\* parse_message, lines 314-338: parse the timestamp, build and save the Post.
ParseMessage_post ==
    /\ pc = "message_post"
    /\ IF ~Div.dateOk
         THEN /\ Raise
              /\ UNCHANGED << mi, user, threads, posts, pending >>
         ELSE /\ posts' = Append(posts, [id |-> Div.id, user_id |-> user,
                                         thread_id |-> thread])
              /\ threads' = save(threads, pending)
              /\ pending' = << >>
              /\ mi' = mi + 1
              /\ user' = None
              /\ pc' = "thread_div"
              /\ ended' = ended
    /\ UNCHANGED << f, run, hist, ri, room, page, ei, thread, tpage, paged,
                    rooms, users, log, prevRepo, expunged,
                    summary, callRepo, norm >>

\* The fetch the process is about to issue, when it is at one.
AtFetch ==
    \/ pc \in {"main", "room_get", "thread_get"}
    \/ pc = "parse_pages" /\ page > 0
    \/ pc = "thread_pages" /\ tpage > 0

NextFetch ==
    CASE pc = "main"         -> Fetched("root", None, 0)
      [] pc = "room_get"     -> Fetched("room", RootDoc[ri].href, 0)
      [] pc = "parse_pages"  -> Fetched("roompage", RootDoc[ri].href, page)
      [] pc = "thread_get"   -> Fetched("thread", Entry.href, 0)
      [] pc = "thread_pages" -> Fetched("threadpage", Entry.href, tpage)

\* http.get of lines 124, 178, 197, 234, 245 raises: the transport failed.
FetchFails ==
    /\ AtFetch
    /\ log' = Append(log, NextFetch)
    /\ Raise
    /\ UNCHANGED << f, run, hist, ctl, db, pending, prevRepo, expunged,
                    summary, callRepo, norm >>

\* __main__, lines 344-346: the operator interrupts the crawl.
KeyboardInterrupt ==
    /\ Running
    /\ expunged' = Len(pending)
    /\ pending' = rollback(pending)
    /\ ended' = "interrupted"
    /\ pc' = "report"
    /\ UNCHANGED << f, run, hist, ctl, db, log, prevRepo, summary, callRepo, norm >>

\* __main__, lines 347-351: print the counts and close the session.
Report ==
    /\ pc = "report"
    /\ pending' = << >>
    /\ summary' = Append(summary, [users |-> Len(users), threads |-> Len(SessionThreads),
                                    posts |-> Len(posts)])
    /\ pc' = "done"
    /\ ri' = 0 /\ room' = None /\ page' = 0 /\ ei' = 0
    /\ thread' = None /\ tpage' = 0 /\ paged' = FALSE /\ mi' = 0 /\ user' = None
    /\ UNCHANGED << f, run, hist, ended, db, log, prevRepo, expunged,
                    callRepo, norm >>

\* The entry point is run again on the same database file.
Rerun ==
    /\ pc = "done"
    /\ run < MaxRuns
    /\ run' = run + 1
    /\ hist' = Append(hist, ended)
    /\ prevRepo' = Repo
    /\ ended' = ""
    /\ log' = << >>
    /\ expunged' = 0
    /\ pc' = "main"
    /\ summary' = << >>
    /\ callRepo' = EmptyRepo
    /\ UNCHANGED << f, ctl, db, pending, norm >>

Next ==
    \/ Main_get
    \/ Main_h3
    \/ ParseRoom_resolve
    \/ ParseRoom_get
    \/ ParsePages_get
    \/ ParsePages_h3
    \/ ParsePages_save
    \/ ParseThread_resolve
    \/ ParseThread_get
    \/ ParseThread_page
    \/ ParseThreadPage_div
    \/ ParseMessage_user
    \/ ParseMessage_first
    \/ ParseMessage_post
    \/ FetchFails
    \/ KeyboardInterrupt
    \/ Report
    \/ Rerun

Spec == Init /\ [][Next]_vars

\* The steps the interpreter takes by itself: everything but the failure of
\* the transport, the operator's interrupt and the operator's next launch.
Step ==
    \/ Main_get \/ Main_h3
    \/ ParseRoom_resolve \/ ParseRoom_get
    \/ ParsePages_get \/ ParsePages_h3 \/ ParsePages_save
    \/ ParseThread_resolve \/ ParseThread_get \/ ParseThread_page
    \/ ParseThreadPage_div
    \/ ParseMessage_user \/ ParseMessage_first \/ ParseMessage_post
    \/ Report

\* A started process keeps executing: each fetch returns or raises, each
\* sleep ends, and no statement blocks.
FairSpec == Spec /\ WF_vars(Step)


(***************************************************************************)
(* What the claims speak of.                                               *)
(***************************************************************************)

PostIds == {posts[i].id : i \in DOMAIN posts}

\* The ids of the posts on the pages of thread t.
ThreadPostIds(t) ==
    UNION {{Forum.threads[t][p][i].id : i \in DOMAIN Forum.threads[t][p]} :
           p \in DOMAIN Forum.threads[t]}

\* The thread listing entries of every room the root listing links to.
ListedEntries ==
    UNION {UNION {{Forum.rooms[RootDoc[r].href][p][i] :
                       i \in DOMAIN Forum.rooms[RootDoc[r].href][p]} :
                  p \in DOMAIN Forum.rooms[RootDoc[r].href]} :
           r \in {x \in DOMAIN RootDoc : RootDoc[x].link}}

\* The posts of every non-moved thread a room of the root listing lists.
AllListedPosts ==
    UNION {ThreadPostIds(e.href) : e \in {x \in ListedEntries : ~x.moved}}

\* Every listing entry has its last-post link and every timestamp parses.
SourceWellFormed ==
    /\ \A r \in DOMAIN RootDoc : RootDoc[r].link => RootDoc[r].hasLast
    /\ \A e \in ListedEntries : e.moved \/ e.hasLast
    /\ \A t \in DOMAIN Forum.threads : \A p \in DOMAIN Forum.threads[t] :
         \A i \in DOMAIN Forum.threads[t][p] : Forum.threads[t][p][i].dateOk

\* The post ids one uninterrupted run stores, started with the ids S stored:
\* parse_pages on one entry, one page, the pages from p down to 1, then
\* main on the root entries from i on.
EntryResult(S, e) ==
    IF e.moved \/ get_latest_id(e) \notin S THEN S \cup ThreadPostIds(e.href) ELSE S

RECURSIVE DocResult(_, _, _)
DocResult(S, doc, i) ==
    IF i > Len(doc) THEN S ELSE DocResult(EntryResult(S, doc[i]), doc, i + 1)

RECURSIVE PagesResult(_, _, _)
PagesResult(S, pages, p) ==
    IF p = 0 THEN S ELSE PagesResult(DocResult(S, pages[p], 1), pages, p - 1)

RoomResult(S, h3) ==
    LET pages     == Forum.rooms[h3.href]
        page_link == get_page_link(PagingLinks(Len(pages)))
    IN  IF ~h3.link \/ get_latest_id(h3) \in S \/ page_link = None
          THEN S
          ELSE PagesResult(S, pages, parse_page_link(page_link))

RECURSIVE RootResult(_, _)
RootResult(S, i) ==
    IF i > Len(RootDoc) THEN S ELSE RootResult(RoomResult(S, RootDoc[i]), i + 1)

UninterruptedRun(S) == RootResult(S, 1)

\* The first run, left alone, stores exactly what UninterruptedRun computes.
UninterruptedRunAgrees ==
    (run = 1 /\ pc = "done" /\ ended = "ok") => PostIds = UninterruptedRun({})

NoDuplicates ==
    /\ \A i, j \in DOMAIN users : users[i].name = users[j].name => i = j
    /\ \A i, j \in DOMAIN rooms : rooms[i].name = rooms[j].name => i = j
    /\ \A i, j \in DOMAIN threads :
         (threads[i].name = threads[j].name /\ threads[i].room_id = threads[j].room_id)
            => i = j
    /\ \A i, j \in DOMAIN posts : posts[i].id = posts[j].id => i = j

ThreadFetches == {i \in DOMAIN log : log[i].kind \in {"thread", "threadpage"}}

\* C1: when a run completes right after a run that completed, the committed
\* rows are those the earlier run left, without duplicates, and the later
\* run fetched no thread page.
C1_IdempotentRerun ==
    (pc = "done" /\ ended = "ok" /\ hist # << >> /\ hist[Len(hist)] = "ok")
       => /\ Repo = prevRepo
          /\ NoDuplicates
          /\ ThreadFetches = {}

C1_Witness ==
    /\ pc = "done" /\ ended = "ok" /\ hist = << "ok" >>
    /\ posts # << >>
    /\ \E i \in DOMAIN log : log[i].kind = "room"

\* C2: when the first run is interrupted and the second completes, against
\* a well-formed source, the second leaves every post stored that one
\* uninterrupted run from the empty store stores.
C2_ResumeComplete ==
    (pc = "done" /\ ended = "ok" /\ hist = << "interrupted" >> /\ SourceWellFormed)
       => UninterruptedRun({}) \subseteq PostIds

\* C3: after one uninterrupted run from the empty store against a
\* well-formed source, every post of every listed non-moved thread is stored.
C3_MirrorComplete ==
    (run = 1 /\ pc = "done" /\ ended = "ok" /\ SourceWellFormed)
       => AllListedPosts \subseteq PostIds


\* The step is taken by the crawl, not by the operator's interrupt.
CrawlStep == ended' # "interrupted"

\* C4: at a non-moved listing entry whose advertised latest post id is
\* stored, the crawl moves to the next entry with no fetch and no change to
\* any row; when the id is not stored it goes into the thread, and the
\* thread's page is fetched next.
C4_FreshnessSkip ==
    [][ /\ (pc = "pages_h3" /\ ei <= Len(RoomDoc) /\ CrawlStep
              /\ ~Entry.moved /\ HasLatestId(Entry))
           => IF PostExists(Entry.latest)
                THEN /\ pc' = "pages_h3" /\ ei' = ei + 1
                     /\ log' = log /\ db' = db /\ pending' = pending
                ELSE /\ pc' = "parse_thread" /\ ei' = ei
        /\ (pc = "parse_thread" /\ CrawlStep) => pc' = "thread_get"
        /\ (pc = "thread_get" /\ CrawlStep)
           => log' = Append(log, Fetched("thread", Entry.href, 0)) ]_vars

C4_Witness ==
    /\ pc = "pages_h3" /\ ei > 1
    /\ ~RoomDoc[ei - 1].moved /\ HasLatestId(RoomDoc[ei - 1])
    /\ PostExists(RoomDoc[ei - 1].latest)
    /\ \A i \in ThreadFetches : log[i].href # RoomDoc[ei - 1].href

\* The thread of the entry at hand has been fetched.
ThreadFetched ==
    pc \in {"thread_pages", "thread_div", "message_user", "message_first",
            "message_post"}

\* C5: no thread is fetched for a listing entry marked moved, and no stored
\* Thread row carries the name and room of one.
C5_MovedSkipped ==
    /\ ThreadFetched => ~Entry.moved
    /\ \A r \in {x \in DOMAIN RootDoc : RootDoc[x].link} :
         \A p \in DOMAIN Forum.rooms[RootDoc[r].href] :
           \A i \in DOMAIN Forum.rooms[RootDoc[r].href][p] :
             LET e == Forum.rooms[RootDoc[r].href][p][i]
             IN  e.moved =>
                   ~\E t \in DOMAIN threads :
                      /\ threads[t].name = e.name
                      /\ threads[t].room_id = RoomByName(RootDoc[r].name)

\* C6: no two Post rows share an id, and a post id once stored stays stored.
C6_PostIdentity ==
    /\ [](\A i, j \in DOMAIN posts : posts[i].id = posts[j].id => i = j)
    /\ [][PostIds \subseteq PostIds' /\ Len(posts') - Len(posts) \in {0, 1}]_vars

\* A post page shows a fragment whose id is stored, with others stored after it.
C6_Witness ==
    /\ pc = "thread_div" /\ mi > 1 /\ mi <= Len(ThreadDoc)
    /\ PostExists(ThreadDoc[mi - 1].id)
    /\ run > 1
    /\ \E i \in DOMAIN prevRepo.posts : prevRepo.posts[i].id = ThreadDoc[mi - 1].id

\* C7: no two Room rows and no two User rows share a name; a name that has
\* a row resolves to that row and adds none.
C7_NameUniqueness ==
    /\ [](/\ \A i, j \in DOMAIN rooms : rooms[i].name = rooms[j].name => i = j
          /\ \A i, j \in DOMAIN users : users[i].name = users[j].name => i = j)
    /\ [][ /\ (pc = "parse_room" /\ CrawlStep
                 /\ \E i \in DOMAIN rooms : rooms[i].name = RootDoc[ri].name)
              => /\ rooms' = rooms
                 /\ \E i \in DOMAIN rooms :
                      rooms[i].name = RootDoc[ri].name /\ room' = rooms[i].id
           /\ (pc = "message_user" /\ CrawlStep
                 /\ \E i \in DOMAIN users : users[i].name = Div.author)
              => /\ users' = users
                 /\ \E i \in DOMAIN users :
                      users[i].name = Div.author /\ user' = users[i].id ]_vars

\* A later run has met a room name and an author name that had rows.
C7_Witness ==
    /\ run > 1 /\ pc = "message_first"
    /\ \E i \in DOMAIN prevRepo.rooms : prevRepo.rooms[i].id = room
    /\ \E i \in DOMAIN prevRepo.users : prevRepo.users[i].id = user

\* C8: among the committed rows every Post names a Thread row and a User
\* row, and every Thread names a Room row.
C8_ReferentialIntegrity ==
    /\ \A i \in DOMAIN posts :
         /\ \E t \in DOMAIN threads : threads[t].id = posts[i].thread_id
         /\ \E u \in DOMAIN users : users[u].id = posts[i].user_id
    /\ \A t \in DOMAIN threads :
         /\ \E r \in DOMAIN rooms : rooms[r].id = threads[t].room_id
         /\ threads[t].user_id # None
              => \E u \in DOMAIN users : users[u].id = threads[t].user_id

\* An interrupt came after a Thread row was committed, without a starter,
\* by the save of its first stored Post.
C8_Witness ==
    /\ pc = "done" /\ ended = "interrupted"
    /\ \E t \in DOMAIN threads :
         /\ threads[t].user_id = None
         /\ \E i \in DOMAIN posts : posts[i].thread_id = threads[t].id

\* C9: a Thread row's starter, once set, keeps its value.
C9_StarterOnce ==
    [][\A i \in DOMAIN threads :
          threads[i].user_id # None => threads'[i].user_id = threads[i].user_id]_vars

\* C10: the interrupt and the shutdown after it leave the committed rows as
\* the last completed save left them, and nothing stays pending.
C10_Cancellation ==
    [][ended' = "interrupted" => (db' = db /\ pending' = << >>)]_vars

\* The run was interrupted with a Thread row pending and rows committed.
C10_Witness ==
    /\ pc = "done" /\ ended = "interrupted" /\ expunged > 0
    /\ threads # << >> /\ users # << >>

PagesDescend(first, numbered, site) ==
    \A i \in DOMAIN log :
        log[i].kind = numbered =>
            LET prev == {j \in 1..(i - 1) : log[j].kind \in {first, numbered}}
                j    == CHOOSE j \in prev : \A k \in prev : k <= j
            IN  /\ prev # {}
                /\ log[j].href = log[i].href
                /\ log[i].page >= 1
                /\ log[i].page = IF log[j].kind = first
                                   THEN Len(site[log[i].href])
                                   ELSE log[j].page - 1

\* In a run that completed, the fetches of a paginated listing went down to
\* page 1.
PagesComplete(first, numbered, site) ==
    \A i \in DOMAIN log :
        LET P    == Len(site[log[i].href])
            next == IF log[i].kind = first THEN P ELSE log[i].page - 1
        IN  (\/ log[i].kind = first /\ P >= 2
             \/ log[i].kind = numbered /\ log[i].page > 1)
                => \E j \in (i + 1)..Len(log) :
                       log[j] = Fetched(numbered, log[i].href, next)

\* C12: the numbered pages of a paginated room listing are fetched P, P-1,
\* ..., 1, each once, and so are the post pages of a paginated thread; one
\* step issues at most one fetch; the entries of a page are taken one after
\* the other from the first, and the page number goes down only when all of
\* them have been taken; each of the two loops is left.
C12_PageOrdering ==
    /\ [](/\ PagesDescend("room", "roompage", Forum.rooms)
          /\ PagesDescend("thread", "threadpage", Forum.threads))
    /\ []((pc = "done" /\ ended = "ok")
             => /\ PagesComplete("room", "roompage", Forum.rooms)
                /\ PagesComplete("thread", "threadpage", Forum.threads))
    /\ [][Len(log') <= Len(log) + 1]_vars
    /\ [][(page > 0 /\ page' # page /\ pc' # "done")
             => (ei > Len(RoomDoc) /\ page' = page - 1)]_vars
    /\ [][(ei >= 1 /\ ei' # ei /\ pc' # "done")
             => \/ ei <= Len(RoomDoc) /\ ei' = ei + 1
                \/ ei > Len(RoomDoc) /\ ei' = 0 /\ page' = page - 1]_vars
    /\ [][(ei = 0 /\ ei' # ei)
             => (ei' = 1 /\ log' = Append(log, Fetched("roompage", RootDoc[ri].href, page)))]_vars
    /\ [][(paged /\ tpage > 0 /\ tpage' # tpage /\ pc' # "done")
             => (mi > Len(ThreadDoc) /\ tpage' = tpage - 1)]_vars
    /\ [][(paged /\ mi >= 1 /\ mi' # mi /\ pc' # "done")
             => \/ mi <= Len(ThreadDoc) /\ mi' = mi + 1
                \/ mi > Len(ThreadDoc) /\ mi' = 0 /\ tpage' = tpage - 1]_vars
    /\ [][(paged /\ mi = 0 /\ mi' # mi)
             => (mi' = 1 /\ log' = Append(log, Fetched("threadpage", Entry.href, tpage)))]_vars
    /\ (pc = "parse_pages" ~> pc \in {"main_h3", "report", "done"})
    /\ (pc = "thread_pages" ~> pc \in {"pages_h3", "report", "done"})

\* A run completed over a room of three listing pages that holds a thread of
\* three post pages.
C12_Witness ==
    /\ pc = "done" /\ ended = "ok"
    /\ \E i, j \in DOMAIN log :
         /\ log[i].kind = "roompage" /\ log[i].page = 1
         /\ Len(Forum.rooms[log[i].href]) = 3
         /\ log[j].kind = "threadpage" /\ log[j].page = 1
         /\ Len(Forum.threads[log[j].href]) = 3

\* The fetches of room listings: a room's own page and its numbered pages.
ListingFetches == {i \in DOMAIN log : log[i].kind \in {"room", "roompage"}}

\* The pauses between positions i and j of the log.
Pauses(i, j) == {k \in (i + 1)..(j - 1) : log[k].kind = "sleep"}

\* C13: one pause lies between two consecutive fetches of room listings, the
\* fetch of a room's own page and of its first numbered page included, and no
\* pause comes before the first of them.
C13_RateLimiting ==
    /\ \A i, j \in ListingFetches :
         (i < j /\ \A k \in ListingFetches : ~(i < k /\ k < j))
            => Cardinality(Pauses(i, j)) = 1
    /\ \A j \in ListingFetches :
         (\A k \in ListingFetches : j <= k) => Pauses(0, j) = {}

\* C14: at a post fragment whose id is stored, the call returns with no row
\* committed, added or changed and no row made pending, and the loop over the
\* page goes on with the next fragment of the same page.
C14_PostSkip ==
    [][(pc = "thread_div" /\ mi <= Len(ThreadDoc) /\ PostExists(Div.id) /\ CrawlStep)
          => /\ db' = db /\ pending' = pending /\ user' = user
             /\ pc' = "thread_div" /\ mi' = mi + 1
             /\ thread' = thread /\ tpage' = tpage /\ ei' = ei]_vars

\* After a fragment stored by an earlier run was passed, the next fragment
\* of the page, which is not stored, is the one to ingest.
C14_Witness ==
    /\ pc = "thread_div" /\ mi > 1 /\ mi <= Len(ThreadDoc)
    /\ \E i \in DOMAIN prevRepo.posts : prevRepo.posts[i].id = ThreadDoc[mi - 1].id
    /\ ~PostExists(Div.id)

\* C15: when a run has completed without error, every entry of the root
\* listing that carries a link has a Room row of its name.
C15_RoomResolution ==
    (pc = "done" /\ ended = "ok")
        => \A i \in DOMAIN RootDoc :
               RootDoc[i].link => RoomByName(RootDoc[i].name) # None

\* parse_message raised on the timestamp of the fragment at hand: the only
\* exception raised while a fragment is being ingested.
DataError == pc = "report" /\ ended = "error" /\ mi > 0

\* Every row of old is at its place in new, with the same field values.
RowsKept(old, new) ==
    /\ Len(old) <= Len(new)
    /\ \A i \in DOMAIN old : new[i] = old[i]

\* C16: when the ingestion of a fragment has failed on its timestamp, no Post
\* of its id is stored and every row committed when the call began has the
\* field values it had then.
C16_DataError ==
    DataError
        => /\ ~PostExists(Div.id)
           /\ RowsKept(callRepo.rooms, rooms)
           /\ RowsKept(callRepo.users, users)
           /\ RowsKept(callRepo.threads, threads)
           /\ RowsKept(callRepo.posts, posts)

\* The entry at hand is not moved and lacks its last-post element or link.
AtBrokenEntry ==
    \/ /\ pc = "main_h3" /\ ri <= Len(RootDoc)
       /\ RootDoc[ri].link /\ ~RootDoc[ri].hasLast
    \/ /\ pc = "pages_h3" /\ ei <= Len(RoomDoc)
       /\ ~Entry.moved /\ ~Entry.hasLast

\* C17: at a listing entry that is not moved and lacks its last-post element
\* or link, get_latest_id raises: the run goes to its end with no row
\* changed and nothing fetched; and once an exception has ended the run,
\* no fetch is issued and no row changes until the process has exited.
C17_StructuralError ==
    /\ [][(AtBrokenEntry /\ CrawlStep)
             => /\ pc' = "report" /\ ended' = "error"
                /\ db' = db /\ log' = log /\ ctl' = ctl]_vars
    /\ [][(ended = "error" /\ ended' = "error")
             => (pc' = "done" /\ db' = db /\ log' = log)]_vars
    /\ [](ended = "error" => pc \in {"report", "done"})

\* The run failed at a thread entry without last-post link, after posts of
\* earlier entries were committed.
C17_Witness ==
    /\ pc = "report" /\ ended = "error"
    /\ ei >= 1 /\ ei <= Len(RoomDoc)
    /\ ~Entry.moved /\ ~Entry.hasLast
    /\ posts # << >>

\* The steps that ingest the fragments of a thread page.
InThreadPage == pc \in {"thread_div", "message_user", "message_first", "message_post"}

\* C18: when the page fetched for a thread has no pagination link, the fetch
\* is followed by the ingestion of that page from its first fragment, with no
\* exception; the fragments are taken one after the other; after the last
\* one the crawl is at the next listing entry; and no numbered page of the
\* thread is fetched, so that the thread costs one fetch.
C18_SinglePageThread ==
    /\ [][(pc = "thread_get" /\ Len(ThreadPages) = 1 /\ CrawlStep /\ ~FetchFails)
             => /\ log' = Append(log, Fetched("thread", Entry.href, 0))
                /\ pc' = "thread_div" /\ mi' = 1 /\ tpage' = 1 /\ ~paged'
                /\ ended' = ended /\ db' = db /\ pending' = pending]_vars
    /\ [][(InThreadPage /\ ~paged) => log' = log]_vars
    /\ [][(InThreadPage /\ ~paged /\ mi' # mi /\ pc' # "done")
             => \/ mi <= Len(ThreadDoc) /\ mi' = mi + 1 /\ pc' = "thread_div"
                \/ /\ mi > Len(ThreadDoc) /\ mi' = 0
                   /\ pc' = "pages_h3" /\ ei' = ei + 1]_vars
    /\ [](\A i \in DOMAIN log :
             log[i].kind = "threadpage" => Len(Forum.threads[log[i].href]) >= 2)

\* The two fragments of a thread without pagination have been ingested from
\* the page fetched for the thread.
C18_Witness ==
    /\ pc = "thread_div" /\ ~paged /\ Len(ThreadDoc) >= 2 /\ mi > Len(ThreadDoc)
    /\ \A m \in DOMAIN ThreadDoc : PostExists(ThreadDoc[m].id)
    /\ log[Len(log)] = Fetched("thread", Entry.href, 0)

(***************************************************************************)
(* parse_datetime.  A text is a sequence of characters, except that the    *)
(* words "Yesterday" and "Today" are one element each.  A date is a record *)
(* of year, month and day, a time a record of hour, minute and second.     *)
(***************************************************************************)

DigitChars == << "0", "1", "2", "3", "4", "5", "6", "7", "8", "9" >>

IsDigit(c) == \E n \in 0..9 : DigitChars[n + 1] = c

DigitValue(c) == CHOOSE n \in 0..9 : DigitChars[n + 1] = c

\* The decimal digits of n on w places, zero padded: "%04d", "%02d".
RECURSIVE Pad(_, _)
Pad(n, w) == IF w = 0 THEN << >> ELSE Append(Pad(n \div 10, w - 1), DigitChars[(n % 10) + 1])

\* int() of a text of digits.
RECURSIVE Value(_)
Value(s) ==
    IF s = << >> THEN 0
    ELSE 10 * Value(SubSeq(s, 1, Len(s) - 1)) + DigitValue(s[Len(s)])

AllDigits(s) == \A i \in DOMAIN s : IsDigit(s[i])

IsLeap(y) == y % 4 = 0 /\ (y % 100 # 0 \/ y % 400 = 0)

DaysInMonthTable == << 31, 28, 31, 30, 31, 30, 31, 31, 30, 31, 30, 31 >>

DaysBeforeMonthTable == << 0, 31, 59, 90, 120, 151, 181, 212, 243, 273, 304, 334 >>

DaysInMonth(y, m) == IF m = 2 /\ IsLeap(y) THEN 29 ELSE DaysInMonthTable[m]

DaysBeforeMonth(y, m) == DaysBeforeMonthTable[m] + (IF m > 2 /\ IsLeap(y) THEN 1 ELSE 0)

DaysBeforeYear(y) ==
    LET p == y - 1 IN p * 365 + (p \div 4) - (p \div 100) + (p \div 400)

\* date.toordinal(): the number of the day, 1 being 0001-01-01.
toordinal(date) == DaysBeforeYear(date.y) + DaysBeforeMonth(date.y, date.m) + date.d

\* date.fromordinal(n), by the cycles of 400, 100, 4 and 1 years.
fromordinal(ordinal) ==
    LET n0   == ordinal - 1
        n400 == n0 \div 146097
        r400 == n0 % 146097
        n100 == r400 \div 36524
        r100 == r400 % 36524
        n4   == r100 \div 1461
        r4   == r100 % 1461
        n1   == r4 \div 365
        n    == r4 % 365
        year == n400 * 400 + 1 + n100 * 100 + n4 * 4 + n1
        leap == n1 = 3 /\ (n4 # 24 \/ n100 = 3)
        add  == IF leap THEN 1 ELSE 0
        m0   == (n + 50) \div 32
        pre0 == DaysBeforeMonthTable[m0] + (IF m0 > 2 THEN add ELSE 0)
        back == pre0 > n
        m    == IF back THEN m0 - 1 ELSE m0
        pre  == IF back
                  THEN pre0 - (DaysInMonthTable[m] + (IF m = 2 THEN add ELSE 0))
                  ELSE pre0
    IN  IF n1 = 4 \/ n100 = 4
          THEN [y |-> year - 1, m |-> 12, d |-> 31]
          ELSE [y |-> year, m |-> m, d |-> n - pre + 1]

minus_days_dayField(when, days) ==
    [when EXCEPT !.date = [@ EXCEPT !.d = @ - days]]

\* datetime - timedelta(days=days): the day goes back, the time stays.
minus_days(when, days) ==
    [when EXCEPT !.date = fromordinal(toordinal(@) - days)]

\* date.isoformat(): YYYY-MM-DD
isoformat(date) ==
    Pad(date.y, 4) \o << "-" >> \o Pad(date.m, 2) \o << "-" >> \o Pad(date.d, 2)

\* str.startswith and str.replace for one of the two words.
startswith(s, word) == s # << >> /\ s[1] = word

RECURSIVE replace(_, _, _)
replace(s, word, new) ==
    IF s = << >> THEN << >>
    ELSE (IF Head(s) = word THEN new ELSE << Head(s) >>) \o replace(Tail(s), word, new)

ValueError == [ok |-> FALSE]

\* datetime.fromisoformat: YYYY-MM-DD, then any one character and HH, HH:MM
\* or HH:MM:SS; every other text, and a date or a time out of range, raises.
fromisoformat(s) ==
    LET n      == Len(s)
        part(a, b) == SubSeq(s, a, b)
        shape  == /\ n \in {10, 13, 16, 19}
                  /\ AllDigits(part(1, 4)) /\ s[5] = "-"
                  /\ AllDigits(part(6, 7)) /\ s[8] = "-"
                  /\ AllDigits(part(9, 10))
                  /\ n >= 13 => AllDigits(part(12, 13))
                  /\ n >= 16 => (s[14] = ":" /\ AllDigits(part(15, 16)))
                  /\ n >= 19 => (s[17] = ":" /\ AllDigits(part(18, 19)))
        y      == Value(part(1, 4))
        m      == Value(part(6, 7))
        d      == Value(part(9, 10))
        h      == IF n >= 13 THEN Value(part(12, 13)) ELSE 0
        minute == IF n >= 16 THEN Value(part(15, 16)) ELSE 0
        sec    == IF n >= 19 THEN Value(part(18, 19)) ELSE 0
    IN  IF /\ shape
           /\ y >= 1 /\ m \in 1..12
           /\ d >= 1 /\ d <= DaysInMonth(y, m)
           /\ h < 24 /\ minute < 60 /\ sec < 60
          THEN [ok |-> TRUE, date |-> [y |-> y, m |-> m, d |-> d],
                time |-> [h |-> h, mi |-> minute, s |-> sec]]
          ELSE ValueError

\* parse_datetime, lines 269-277, with utcnow() returning now.
parse_datetime(s, now) ==
    IF startswith(s, "Yesterday")
      THEN fromisoformat(replace(s, "Yesterday", isoformat(minus_days(now, 1).date)))
    ELSE IF startswith(s, "Today")
      THEN fromisoformat(replace(s, "Today", isoformat(now.date)))
    ELSE fromisoformat(s)

\* The inputs: the days that utcnow() and the absolute texts take, among them
\* the first day of a year and of months after months of 28, 29, 30 and 31
\* days; the times of day; and the texts.
Days ==
    { [y |-> 2024, m |-> 1, d |-> 1],  [y |-> 2024, m |-> 3, d |-> 1],
      [y |-> 2023, m |-> 3, d |-> 1],  [y |-> 2100, m |-> 3, d |-> 1],
      [y |-> 2000, m |-> 3, d |-> 1],  [y |-> 2024, m |-> 5, d |-> 1],
      [y |-> 2024, m |-> 8, d |-> 1],  [y |-> 2024, m |-> 2, d |-> 29],
      [y |-> 2024, m |-> 12, d |-> 31], [y |-> 2021, m |-> 6, d |-> 15] }

Times ==
    { [h |-> 0, mi |-> 0, s |-> 0], [h |-> 18, mi |-> 30, s |-> 14],
      [h |-> 23, mi |-> 59, s |-> 59] }

TimeText(t) == Pad(t.h, 2) \o << ":" >> \o Pad(t.mi, 2) \o << ":" >> \o Pad(t.s, 2)

RelativeText(word, t) == << word, " " >> \o TimeText(t)

AbsoluteText(date, t) == isoformat(date) \o << " " >> \o TimeText(t)

\* The example of the docstring of parse_datetime: "2020-15-5".
DocstringText == << "2", "0", "2", "0", "-", "1", "5", "-", "5" >>

Texts ==
    {RelativeText(w, t) : w \in {"Yesterday", "Today"}, t \in Times}
        \cup {AbsoluteText(date, t) : date \in Days, t \in Times}
        \cup {DocstringText}

\* Every variable of the crawl, at rest.
CrawlAtRest ==
    /\ f = 1 /\ run = 1 /\ hist = << >> /\ ended = ""
    /\ ri = 0 /\ room = None /\ page = 0 /\ ei = 0
    /\ thread = None /\ tpage = 0 /\ paged = FALSE /\ mi = 0 /\ user = None
    /\ rooms = << >> /\ users = << >> /\ threads = << >> /\ posts = << >>
    /\ pending = << >> /\ log = << >>
    /\ prevRepo = EmptyRepo /\ expunged = 0
    /\ summary = << >> /\ callRepo = EmptyRepo

crawl == << f, run, hist, ended, ctl, db, pending, log, prevRepo, expunged,
            summary, callRepo >>

\* A call of parse_datetime(text) on the day and at the time of today.
DateInit ==
    /\ CrawlAtRest
    /\ pc = "parse_datetime"
    /\ today \in [date : Days, time : Times]
    /\ text \in Texts
    /\ parsed = None
    /\ content = << >> /\ body = None

ParseDatetime ==
    /\ pc = "parse_datetime"
    /\ LET result == parse_datetime(text, today)
       IN  IF result.ok
             THEN /\ parsed' = [date |-> result.date, time |-> result.time]
                  /\ pc' = "returned"
             ELSE /\ parsed' = parsed
                  /\ pc' = "raised"
    /\ UNCHANGED << crawl, today, text, content, body >>

(***************************************************************************)
(* The text of a Post, lines 314-333.  A child of div.entry-content is a   *)
(* text node or an element; an element has a tag and may hold a div        *)
(* somewhere inside it.  A rendered child is the sequence of its label,    *)
(* and the separator of the join is the element Sep.                       *)
(***************************************************************************)

MaxChildren == 3

Sep == 0

Kinds == {"text", "p", "quotebox", "blockquote"}

\* The i-th child: a text node, a paragraph, a div.quotebox, a blockquote
\* that holds a div, or the div of the signature.
Child(kind, i) ==
    [text  |-> kind = "text",
     tag   |-> IF kind \in {"quotebox", "signature"} THEN "div" ELSE kind,
     inner |-> kind = "blockquote",
     sig   |-> kind = "signature",
     label |-> i]

Bodies == UNION {[1..n -> Kinds] : n \in 0..MaxChildren}

Children(kinds) == [i \in DOMAIN kinds |-> Child(kinds[i], i)]

Contents ==
    {Children(b) : b \in Bodies} \cup {Children(Append(b, "signature")) : b \in Bodies}

\* The descendant that is not a child of the content.
Nested == 0 - 1

\* content.find("div"): the first div below the content in document order,
\* as the index of the child it is, Nested when it lies inside a child, and
\* None when there is none.
find_div(children) ==
    LET hits == {i \in DOMAIN children :
                    ~children[i].text /\ (children[i].tag = "div" \/ children[i].inner)}
        i    == CHOOSE i \in hits : \A j \in hits : i <= j
    IN  IF hits = {} THEN None
        ELSE IF children[i].tag = "div" THEN i ELSE Nested

\* convert(str(child))
Render(child) == << child.label >>

\* The loop of lines 322-326 from child i on, leaving out child signature.
RECURSIVE Strings(_, _, _)
Strings(children, signature, i) ==
    IF i > Len(children) THEN << >>
    ELSE (IF children[i].text \/ i = signature
            THEN << >>
            ELSE << Render(children[i]) >>) \o Strings(children, signature, i + 1)

\* "\n\n".join(strings)
RECURSIVE Join(_)
Join(strings) ==
    IF strings = << >> THEN << >>
    ELSE IF Len(strings) = 1 THEN strings[1]
    ELSE strings[1] \o << Sep >> \o Join(Tail(strings))

\* The text parse_message gives the Post.
post_text(children) == Join(Strings(children, find_div(children), 1))

BodyInit ==
    /\ CrawlAtRest
    /\ pc = "parse_message"
    /\ content \in Contents
    /\ body = None
    /\ today = None /\ text = << >> /\ parsed = None

BuildBody ==
    /\ pc = "parse_message"
    /\ body' = post_text(content)
    /\ pc' = "built"
    /\ UNCHANGED << crawl, today, text, parsed, content >>

PureInit == DateInit \/ BodyInit

PureNext == ParseDatetime \/ BuildBody

PureSpec == PureInit /\ [][PureNext]_vars

\* The day before a day, by the calendar.
DayBefore(date) ==
    IF date.d > 1 THEN [date EXCEPT !.d = @ - 1]
    ELSE IF date.m > 1
      THEN [date EXCEPT !.m = @ - 1, !.d = DaysInMonth(date.y, date.m - 1)]
    ELSE [y |-> date.y - 1, m |-> 12, d |-> 31]

\* C19: on day D, parse_datetime returns for "Yesterday <time>" that time of
\* the day before D, for "Today <time>" that time of D, and for the text of a
\* date and a time that date and that time.
C19_RelativeDates ==
    \A t \in Times :
        /\ (pc # "parse_datetime" /\ text = RelativeText("Yesterday", t))
              => (pc = "returned" /\ parsed = [date |-> DayBefore(today.date), time |-> t])
        /\ (pc # "parse_datetime" /\ text = RelativeText("Today", t))
              => (pc = "returned" /\ parsed = [date |-> today.date, time |-> t])
        /\ \A date \in Days :
             (pc # "parse_datetime" /\ text = AbsoluteText(date, t))
                => (pc = "returned" /\ parsed = [date |-> date, time |-> t])

\* "Yesterday" was resolved on the first day of a year.
C19_Witness ==
    /\ pc = "returned"
    /\ startswith(text, "Yesterday")
    /\ today.date.m = 1 /\ today.date.d = 1
    /\ parsed.date = [y |-> today.date.y - 1, m |-> 12, d |-> 31]

\* The labels of a text.
Labels(s) == {s[i] : i \in DOMAIN s} \ {Sep}

\* C20: the text of the Post is the join of the rendered element children
\* in their order, one of them or none left out; and when the content is
\* body children followed by the signature block, every body child that is
\* an element is in the text, the signature is not, and the text neither
\* begins nor ends with the separator.
C20_SignatureExclusion ==
    pc = "built"
        => /\ \E k \in {None} \cup {i \in DOMAIN content : ~content[i].text} :
                 body = Join(Strings(content, k, 1))
           /\ (content # << >> /\ content[Len(content)].sig)
                 => /\ \A i \in 1..(Len(content) - 1) :
                          ~content[i].text => content[i].label \in Labels(body)
                    /\ content[Len(content)].label \notin Labels(body)
                    /\ body # << >> => (body[1] # Sep /\ body[Len(body)] # Sep)

====
